---- MODULE Spec2Model ----
(***************************************************************************)
(* Model of collatz-automata/src/collatz_automata.py: the Collatz stepping *)
(* rules, trajectory(), binary_grid(), and the frame compositing loops of  *)
(* spacetime_gif() and parallel_gif().                                     *)
(*                                                                         *)
(* Indices are 0-based as in the source (grid[i][j], frames[r]); a Python  *)
(* list is a function on 0..len-1 once it is complete, and a TLA+ sequence *)
(* (1-based) while it is being appended to; At(s, i) reads element i of    *)
(* the latter with the source's index.                                     *)
(*                                                                         *)
(* The canvas is held as the fills made on it: a function from the canvas  *)
(* cell <<row, col>> a rectangle was drawn for to the rectangle's pixel    *)
(* box <<x0, y0, x1, y1>> (inclusive, as PIL's draw.rectangle) and its     *)
(* fill colour.  A cell that was never drawn is absent: its pixels keep    *)
(* the background BG.  A later fill of the same cell has the same box and  *)
(* replaces the earlier one.                                               *)
(***************************************************************************)
EXTENDS Integers, Sequences, FiniteSets, TLC

-----------------------------------------------------------------------------
(* Program constants *)

EMPTY == -1
BG == <<8, 8, 16>>
PAL_DEFAULT == << <<232, 160, 32>>, <<20, 34, 56>> >>
PAL_MULTI ==
    << << <<240, 80, 45>>, <<52, 20, 12>> >>,
       << <<55, 210, 95>>, <<14, 45, 22>> >>,
       << <<80, 145, 245>>, <<18, 34, 58>> >>,
       << <<230, 195, 55>>, <<50, 42, 14>> >> >>

\* trajectory: "if len(path) > 50000: break"
LenCap == 50000
\* spacetime_gif / parallel_gif: "frames.extend([final] * 30)"
HoldCount == 30
\* spacetime_gif / parallel_gif: "margin = 10"
Margin == 10
\* "gap = 1 if cell >= 8 else 0"
GapThreshold == 8
\* spacetime_gif: "cell = max(4, min(20, target_h // nrows))"
CellMin == 4
CellMax == 20
\* spacetime_gif: _bright(c1, 40), _bright(c0, 14)
BrightOne == 40
BrightZero == 14
\* parallel_gif / traj_row: _bright(pal[0], 35), _bright(pal[1], 10)
BrightOnePar == 35
BrightZeroPar == 10
\* parallel_gif defaults: cell=12, gap_cols=2
DefaultCell == 12
DefaultGapCols == 2
\* spacetime_gif default: target_h=850
DefaultTargetH == 850

-----------------------------------------------------------------------------
(* Bounds of the model *)

\* trajectory() is called with every n in MinStart..MaxStart
MaxStart == 30
\* the scenes are built for every n in 1..MaxSceneStart
MaxSceneStart == 5
\* parallel_gif is given lists of 1..MaxTrajs starting numbers
MaxTrajs == 2
\* binary_grid is also given every list of 1..MaxListLen values in 1..MaxListVal
MaxListLen == 2
MaxListVal == 9
\* the capped loop is run from 2^e for e up to LenCap + OverCap
OverCap == 1
\* the passes of its loop that trajectory() is given to end by itself
MaxPasses == 100000

-----------------------------------------------------------------------------
(* Helpers *)

Min(a, b) == IF a < b THEN a ELSE b
Max(a, b) == IF a > b THEN a ELSE b
SetMax(S) == CHOOSE x \in S : \A y \in S : y <= x
At(s, i) == s[i + 1]
Last(s) == s[Len(s)]
Reverse(s) == [i \in 1..Len(s) |-> s[Len(s) + 1 - i]]

-----------------------------------------------------------------------------
(* The stepping rules *)

\* collatz with the odd step already halved: (3n + 1) // 2
collatz_odd_step_halved(n) == IF n % 2 = 0 THEN n \div 2 ELSE (3 * n + 1) \div 2

\* def collatz(n): return n // 2 if n % 2 == 0 else 3 * n + 1
collatz(n) == IF n % 2 = 0 THEN n \div 2 ELSE 3 * n + 1

\* "while n % 2 == 0: n //= 2" of collatz_t3
RECURSIVE halve_while_even(_)
halve_while_even(n) == IF n % 2 = 0 THEN halve_while_even(n \div 2) ELSE n

collatz_t3(n) ==
    IF n <= 1 THEN 1
    ELSE halve_while_even(IF n % 2 = 1 THEN 3 * n + 1 ELSE n)

\* step_of with the flag read the wrong way round
step_of_swapped(accelerated, n) == IF accelerated THEN collatz(n) ELSE collatz_t3(n)

step_of(accelerated, n) == IF accelerated THEN collatz_t3(n) ELSE collatz(n)

\* One pass of the while loop of trajectory(), on [path, running]:
\*   while path[-1] != 1:
\*       path.append(step(path[-1]))
\*       if len(path) > 50000: break
\* running is FALSE once the condition has failed or the break was taken.
trajectory_pass(st, accelerated) ==
    IF ~st.running THEN st
    ELSE IF Last(st.path) # 1
         THEN LET appended == Append(st.path, step_of(accelerated, Last(st.path)))
              IN  [path |-> appended, running |-> ~(Len(appended) > LenCap)]
         ELSE [path |-> st.path, running |-> FALSE]

\* `passes` passes of the loop in a row; the run is split in two halves so
\* that its evaluation nests no deeper than the logarithm of `passes`
RECURSIVE trajectory_passes(_, _, _)
trajectory_passes(st, accelerated, passes) ==
    IF ~st.running THEN st
    ELSE IF passes <= 1 THEN trajectory_pass(st, accelerated)
         ELSE trajectory_passes(
                  trajectory_passes(st, accelerated, passes \div 2),
                  accelerated, passes - passes \div 2)

\* the loop runs until it stops by itself: it cannot take more than
\* MaxPasses passes, as the break ends it after LenCap of them
trajectory(n, accelerated) ==
    IF n <= 1 THEN <<n>>
    ELSE trajectory_passes([path |-> <<n>>, running |-> TRUE],
                           accelerated, MaxPasses).path

-----------------------------------------------------------------------------
(* binary_grid *)

\* int.bit_length(): the least k with v < 2^k (v >= 0)
RECURSIVE bit_length_from(_, _, _)
bit_length_from(v, k, pow) ==
    IF v < pow THEN k ELSE bit_length_from(v, k + 1, 2 * pow)

bit_length(v) == bit_length_from(v, 0, 1)

\* "while v > 0: bits.append(v & 1); v >>= 1": least-significant bit first
RECURSIVE bits_lsb_first(_)
bits_lsb_first(v) ==
    IF v > 0 THEN <<v % 2>> \o bits_lsb_first(v \div 2) ELSE <<>>

\* grid_row without "bits.reverse()"
grid_row_unreversed(val, max_bits) ==
    LET bits == bits_lsb_first(val)
    IN  [j \in 0..(max_bits - 1) |-> IF j < Len(bits) THEN bits[j + 1] ELSE EMPTY]

\* grid_row on a grid allocated with zeros instead of EMPTY
grid_row_zero_filled(val, max_bits) ==
    LET bits == Reverse(bits_lsb_first(val))
    IN  [j \in 0..(max_bits - 1) |-> IF j < Len(bits) THEN bits[j + 1] ELSE 0]

\* one row of the grid: the reversed bits from column 0, EMPTY after them
grid_row(val, max_bits) ==
    LET bits == Reverse(bits_lsb_first(val))
    IN  [j \in 0..(max_bits - 1) |-> IF j < Len(bits) THEN bits[j + 1] ELSE EMPTY]

binary_grid(traj) ==
    LET max_bits == SetMax({bit_length(traj[k]) :
                               k \in {k \in DOMAIN traj : traj[k] > 0}})
    IN  [i \in 0..(Len(traj) - 1) |-> grid_row(At(traj, i), max_bits)]

\* grid.shape
shape0(g) == Cardinality(DOMAIN g)
shape1(g) == Cardinality(DOMAIN g[0])

-----------------------------------------------------------------------------
(* Colours *)

\* def _bright(color, amt): tuple(min(255, c + amt) for c in color)
_bright(color, amt) == [k \in DOMAIN color |-> Min(255, color[k] + amt)]

-----------------------------------------------------------------------------
(* State *)

VARIABLES
    pc,           \* where the program is: "idle" before a call
    n,            \* trajectory / spacetime_gif: the starting number
    accelerated,  \* the rule asked for
    paths,        \* trajectory: the path returned under each rule, <<>> before
    traj,         \* binary_grid / spacetime_gif: the trajectory encoded
    grid,         \* binary_grid / spacetime_gif: the grid
    target_h,     \* spacetime_gif: target_h
    numbers,      \* parallel_gif: numbers
    grids,        \* parallel_gif: grids, on 0..len(numbers)-1
    max_rows,     \* parallel_gif: max_rows
    col_offsets,  \* parallel_gif: col_offsets, on 0..len(numbers)-1
    total_cols,   \* parallel_gif: total_cols
    gap_cols,     \* parallel_gif: gap_cols
    cell,         \* cell size in pixels
    gap,          \* inset of a rectangle inside its cell
    w,            \* canvas width in pixels
    h,            \* canvas height in pixels
    canvas,       \* the fills on the canvas: <<row, col>> -> [box, fill]
    frames,       \* the frames appended so far (copies of canvas)
    r,            \* the next value of the loop variable r
    painted,      \* the <<idx, row>> whose rectangles the latest step drew
    start,        \* the capped loop: n, as [m, e] for m * 2^e
    path_len,     \* the capped loop: len(path)
    path_last     \* the capped loop: path[-1], as [m, e]

scene_vars == <<n, paths, traj, grid, target_h, numbers, grids, max_rows,
                col_offsets, total_cols, gap_cols, cell, gap, w, h, canvas,
                frames, r, painted>>
loop_vars == <<start, path_len, path_last>>
vars == <<pc, accelerated, scene_vars, loop_vars>>

\* the canvas right after Image.new('RGB', (w, h), BG): nothing drawn
Blank == <<>>

NoPaths == [a \in BOOLEAN |-> <<>>]

SceneIdle ==
    /\ n = 0 /\ paths = NoPaths /\ traj = <<>> /\ grid = <<>> /\ target_h = 0
    /\ numbers = <<>> /\ grids = <<>> /\ max_rows = 0 /\ col_offsets = <<>>
    /\ total_cols = 0 /\ gap_cols = 0 /\ cell = 0 /\ gap = 0 /\ w = 0 /\ h = 0
    /\ canvas = Blank /\ frames = <<>> /\ r = 0 /\ painted = {}

LoopIdle ==
    /\ start = [m |-> 0, e |-> 0] /\ path_len = 0
    /\ path_last = [m |-> 0, e |-> 0]

-----------------------------------------------------------------------------
(* trajectory() and binary_grid() called on their own *)

Starts == (-2)..MaxStart
Rules == BOOLEAN

\* trajectory(nn, acc); the two rules may be asked for the same n
Trajectory(nn, acc) ==
    /\ pc \in {"idle", "trajectory"}
    /\ pc = "trajectory" => nn = n
    /\ paths[acc] = <<>>
    /\ pc' = "trajectory"
    /\ n' = nn
    /\ paths' = [paths EXCEPT ![acc] = trajectory(nn, acc)]
    /\ UNCHANGED <<accelerated, traj, grid, target_h, numbers, grids, max_rows,
                   col_offsets, total_cols, gap_cols, cell, gap, w, h, canvas,
                   frames, r, painted, loop_vars>>

RECURSIVE ListsUpTo(_, _)
ListsUpTo(len, S) ==
    IF len = 0 THEN {<<>>}
    ELSE LET shorter == ListsUpTo(len - 1, S)
         IN  shorter \cup {Append(l, x) : l \in shorter, x \in S}

\* the trajectories binary_grid is given: every short list of positive
\* integers, and every trajectory from a positive start
GridInputs ==
    (ListsUpTo(MaxListLen, 1..MaxListVal) \ {<<>>})
        \cup {trajectory(nn, acc) : nn \in 1..MaxStart, acc \in Rules}

BinaryGrid(t) ==
    /\ pc = "idle"
    /\ pc' = "grid"
    /\ traj' = t
    /\ grid' = binary_grid(t)
    /\ UNCHANGED <<accelerated, n, paths, target_h, numbers, grids, max_rows,
                   col_offsets, total_cols, gap_cols, cell, gap, w, h, canvas,
                   frames, r, painted, loop_vars>>

-----------------------------------------------------------------------------
(* Drawing *)

\* "gap = 1 if cell >= 8 else 0"
gap_of(c) == IF c >= GapThreshold THEN 1 ELSE 0

\* cell_box without the "- 1" of the far corner
cell_box_far_corner_off_by_one(row, col) ==
    LET px == Margin + col * cell
        py == Margin + row * cell
    IN  <<px + gap, py + gap, px + cell - gap, py + cell - gap>>

\* the rectangle drawn for the canvas cell (row, col):
\*   px = margin + col * cell;  py = margin + row * cell
\*   [px + gap, py + gap, px + cell - gap - 1, py + cell - gap - 1]
cell_box(row, col) ==
    LET px == Margin + col * cell
        py == Margin + row * cell
    IN  <<px + gap, py + gap, px + cell - gap - 1, py + cell - gap - 1>>

\* draw.rectangle(box, fill=color) for every cell of `cells`, each a
\* <<row, col, v>> with v the grid value (not EMPTY) that picks the colour
fill_cells(cv, cells, one, zero) ==
    [c \in {<<x[1], x[2]>> : x \in cells} |->
        LET v == (CHOOSE x \in cells : x[1] = c[1] /\ x[2] = c[2])[3]
        IN  [box |-> cell_box(c[1], c[2]),
             fill |-> IF v = 1 THEN one ELSE zero]] @@ cv

\* the cells of row `row` of grid g that are not EMPTY, g's column 0 at
\* canvas column co: "for j in range(ncols): v = g[row, j]; if v == EMPTY: continue"
grid_cells(g, row, co) ==
    {<<row, co + j, g[row][j]>> :
        j \in {j \in 0..(shape1(g) - 1) : g[row][j] # EMPTY}}

\* spacetime_gif's row_draw(r, one, zero), on the canvas cv
row_draw(cv, row, one, zero) ==
    fill_cells(cv, grid_cells(grid, row, 0), one, zero)

\* the rows among `rows` that row_draw drew a rectangle for
rows_drawn(rows) == {<<0, row>> : row \in {x \in rows : grid_cells(grid, x, 0) # {}}}

-----------------------------------------------------------------------------
(* spacetime_gif *)

SceneStarts == 1..MaxSceneStart
TargetHs == {24, 60, DefaultTargetH}

\* the calls of spacetime_gif: <<n, accelerated, target_h>>; the last is
\* generate_all's, spacetime_gif(27, ..., accelerated=True)
SpacetimeCalls ==
    (SceneStarts \X BOOLEAN \X TargetHs) \cup {<<27, TRUE, DefaultTargetH>>}

c1 == PAL_DEFAULT[1]
c0 == PAL_DEFAULT[2]
c1_hi == _bright(c1, BrightOne)
c0_hi == _bright(c0, BrightZero)

\* "cell = max(4, min(20, target_h // nrows))"
spacetime_cell(th, nrows) == Max(CellMin, Min(CellMax, th \div nrows))

\* lines 79-95: the trajectory, the grid, the geometry, the blank canvas
SpacetimeBegin(nn, acc, th) ==
    /\ pc = "idle"
    /\ pc' = "spacetime"
    /\ n' = nn
    /\ accelerated' = acc
    /\ target_h' = th
    /\ traj' = trajectory(nn, acc)
    /\ grid' = binary_grid(traj')
    /\ cell' = spacetime_cell(th, shape0(grid'))
    /\ gap' = gap_of(cell')
    /\ w' = shape1(grid') * cell' + 2 * Margin
    /\ h' = shape0(grid') * cell' + 2 * Margin
    /\ canvas' = Blank
    /\ frames' = <<>>
    /\ r' = 0
    /\ painted' = {}
    /\ UNCHANGED <<paths, numbers, grids, max_rows, col_offsets, total_cols,
                   gap_cols, loop_vars>>

\* SpacetimeRow without "if r > 0: row_draw(r - 1, c1, c0)"
SpacetimeRow_no_settle ==
    /\ pc = "spacetime"
    /\ r < shape0(grid)
    /\ canvas' = row_draw(canvas, r, c1_hi, c0_hi)
    /\ frames' = Append(frames, canvas')
    /\ painted' = rows_drawn({r})
    /\ r' = r + 1
    /\ UNCHANGED <<pc, accelerated, n, paths, traj, grid, target_h, numbers,
                   grids, max_rows, col_offsets, total_cols, gap_cols, cell,
                   gap, w, h, loop_vars>>

\* one pass of "for r in range(nrows)": settle row r-1, highlight row r,
\* append a copy of the canvas
SpacetimeRow ==
    /\ pc = "spacetime"
    /\ r < shape0(grid)
    /\ LET settled == IF r > 0 THEN row_draw(canvas, r - 1, c1, c0) ELSE canvas
       IN  canvas' = row_draw(settled, r, c1_hi, c0_hi)
    /\ frames' = Append(frames, canvas')
    /\ painted' = rows_drawn((IF r > 0 THEN {r - 1} ELSE {}) \cup {r})
    /\ r' = r + 1
    /\ UNCHANGED <<pc, accelerated, n, paths, traj, grid, target_h, numbers,
                   grids, max_rows, col_offsets, total_cols, gap_cols, cell,
                   gap, w, h, loop_vars>>

\* SpacetimeFinish appending the final frame and then its 30 copies
SpacetimeFinish_extra_final ==
    /\ pc = "spacetime"
    /\ r = shape0(grid)
    /\ pc' = "spacetime_done"
    /\ canvas' = row_draw(canvas, shape0(grid) - 1, c1, c0)
    /\ frames' = Append(frames, canvas') \o [k \in 1..HoldCount |-> canvas']
    /\ painted' = rows_drawn({shape0(grid) - 1})
    /\ UNCHANGED <<accelerated, n, paths, traj, grid, target_h, numbers, grids,
                   max_rows, col_offsets, total_cols, gap_cols, cell, gap, w,
                   h, r, loop_vars>>

\* after the loop: settle the last row, hold the final frame
SpacetimeFinish ==
    /\ pc = "spacetime"
    /\ r = shape0(grid)
    /\ pc' = "spacetime_done"
    /\ canvas' = row_draw(canvas, shape0(grid) - 1, c1, c0)
    /\ frames' = frames \o [k \in 1..HoldCount |-> canvas']
    /\ painted' = rows_drawn({shape0(grid) - 1})
    /\ UNCHANGED <<accelerated, n, paths, traj, grid, target_h, numbers, grids,
                   max_rows, col_offsets, total_cols, gap_cols, cell, gap, w,
                   h, r, loop_vars>>

-----------------------------------------------------------------------------
(* parallel_gif *)

Cells == {1, 7, GapThreshold, DefaultCell}
GapCols == {0, DefaultGapCols}

\* the calls of parallel_gif: <<numbers, accelerated, cell, gap_cols>>; the
\* last is generate_all's, parallel_gif([7, 27, 97], ..., accelerated=True)
ParallelCalls ==
    ((ListsUpTo(MaxTrajs, SceneStarts) \ {<<>>}) \X BOOLEAN \X Cells \X GapCols)
        \cup {<< <<7, 27, 97>>, TRUE, DefaultCell, DefaultGapCols >>}

\* "for g in grids: col_offsets.append(off); off += g.shape[1] + gap_cols":
\* off before grid k
RECURSIVE off_before(_, _, _)
off_before(gs, k, gc) ==
    IF k = 0 THEN 0 ELSE off_before(gs, k - 1, gc) + shape1(gs[k - 1]) + gc

\* total_cols without the gap columns between the grids
total_cols_without_gaps(gs, gc) == off_before(gs, shape0(gs), gc) - gc * shape0(gs)

\* "total_cols = off - gap_cols"
total_cols_of(gs, gc) == off_before(gs, shape0(gs), gc) - gc

\* the palette of trajectory idx: PAL_MULTI[idx % len(PAL_MULTI)]
pal_of(idx) == PAL_MULTI[(idx % Len(PAL_MULTI)) + 1]
par_c1(idx, highlight) ==
    IF highlight THEN _bright(pal_of(idx)[1], BrightOnePar) ELSE pal_of(idx)[1]
par_c0(idx, highlight) ==
    IF highlight THEN _bright(pal_of(idx)[2], BrightZeroPar) ELSE pal_of(idx)[2]

\* "if row >= g.shape[0]: return"
traj_row_skips(idx, row) == row >= shape0(grids[idx])

\* parallel_gif's traj_row(idx, row, highlight), on the canvas cv
traj_row(cv, idx, row, highlight) ==
    IF traj_row_skips(idx, row) THEN cv
    ELSE fill_cells(cv, grid_cells(grids[idx], row, col_offsets[idx]),
                    par_c1(idx, highlight), par_c0(idx, highlight))

\* the <<idx, row>> among `calls` that traj_row drew a rectangle for
trajs_drawn(calls) ==
    {c \in calls : /\ ~traj_row_skips(c[1], c[2])
                   /\ grid_cells(grids[c[1]], c[2], col_offsets[c[1]]) # {}}

\* step_from without "if r > 0: traj_row(idx, r - 1, False)"
RECURSIVE step_from_no_settle(_, _, _)
step_from_no_settle(cv, idx, row) ==
    IF idx >= shape0(grids) THEN cv
    ELSE step_from_no_settle(traj_row(cv, idx, row, TRUE), idx + 1, row)

\* "for idx in range(len(grids)): if r > 0: traj_row(idx, r - 1, False);
\*  traj_row(idx, r, True)", from trajectory idx on
RECURSIVE step_from(_, _, _)
step_from(cv, idx, row) ==
    IF idx >= shape0(grids) THEN cv
    ELSE LET settled == IF row > 0 THEN traj_row(cv, idx, row - 1, FALSE) ELSE cv
         IN  step_from(traj_row(settled, idx, row, TRUE), idx + 1, row)

\* "for idx in range(len(grids)): traj_row(idx, grids[idx].shape[0] - 1, False)"
RECURSIVE settle_from(_, _)
settle_from(cv, idx) ==
    IF idx >= shape0(grids) THEN cv
    ELSE settle_from(traj_row(cv, idx, shape0(grids[idx]) - 1, FALSE), idx + 1)

\* lines 128-146
ParallelBegin(nums, acc, c, gc) ==
    /\ pc = "idle"
    /\ pc' = "parallel"
    /\ numbers' = nums
    /\ accelerated' = acc
    /\ cell' = c
    /\ gap_cols' = gc
    /\ grids' = [k \in 0..(Len(nums) - 1) |->
                    binary_grid(trajectory(At(nums, k), acc))]
    /\ max_rows' = SetMax({shape0(grids'[k]) : k \in DOMAIN grids'})
    /\ col_offsets' = [k \in DOMAIN grids' |-> off_before(grids', k, gc)]
    /\ total_cols' = total_cols_of(grids', gc)
    /\ gap' = gap_of(c)
    /\ w' = total_cols' * c + 2 * Margin
    /\ h' = max_rows' * c + 2 * Margin
    /\ canvas' = Blank
    /\ frames' = <<>>
    /\ r' = 0
    /\ painted' = {}
    /\ UNCHANGED <<n, paths, traj, grid, target_h, loop_vars>>

\* one pass of "for r in range(max_rows)"
ParallelStep ==
    /\ pc = "parallel"
    /\ r < max_rows
    /\ canvas' = step_from(canvas, 0, r)
    /\ frames' = Append(frames, canvas')
    /\ painted' = trajs_drawn({<<idx, row>> : idx \in DOMAIN grids,
                                              row \in {r - 1, r} \cap Nat})
    /\ r' = r + 1
    /\ UNCHANGED <<pc, accelerated, n, paths, traj, grid, target_h, numbers,
                   grids, max_rows, col_offsets, total_cols, gap_cols, cell,
                   gap, w, h, loop_vars>>

\* after the loop: settle every trajectory's last row, hold the final frame
ParallelFinish ==
    /\ pc = "parallel"
    /\ r = max_rows
    /\ pc' = "parallel_done"
    /\ canvas' = settle_from(canvas, 0)
    /\ frames' = frames \o [k \in 1..HoldCount |-> canvas']
    /\ painted' = trajs_drawn({<<idx, shape0(grids[idx]) - 1>> : idx \in DOMAIN grids})
    /\ UNCHANGED <<accelerated, n, paths, traj, grid, target_h, numbers, grids,
                   max_rows, col_offsets, total_cols, gap_cols, cell, gap, w,
                   h, r, loop_vars>>

-----------------------------------------------------------------------------
(* trajectory() as the loop it is, on numbers of any size *)

(* Python's int is unbounded.  Here the number m * 2^e is held as the     *)
(* record [m |-> m, e |-> e] (e >= 0, and m >= 1 when e > 0), on which the *)
(* tests and the arithmetic of collatz, collatz_t3 and trajectory are      *)
(* exact.  The loop reads only path[-1] and len(path): the path is held as *)
(* these two.                                                              *)
big(m, e) == [m |-> m, e |-> e]

\* n <= 1
big_le_1(v) == v.e = 0 /\ v.m <= 1
\* n != 1
big_ne_1(v) == ~(v.e = 0 /\ v.m = 1)

\* collatz(n): m * 2^e with e > 0 is even
big_collatz(v) ==
    IF v.e > 0 THEN big(v.m, v.e - 1) ELSE big(collatz(v.m), 0)

\* collatz_t3(n): m * 2^e with e > 0 is even and above 1; halving it while
\* it is even leaves m halved while even
big_collatz_t3(v) ==
    IF v.e > 0 THEN big(halve_while_even(v.m), 0) ELSE big(collatz_t3(v.m), 0)

big_step_of(acc, v) == IF acc THEN big_collatz_t3(v) ELSE big_collatz(v)

LoopStarts ==
    {big(m, 0) : m \in Starts}
        \cup {big(1, e) : e \in (LenCap - 1)..(LenCap + OverCap)}

\* "step = ...; path = [n]; if n <= 1: return path"
TrajectoryEnter(s, acc) ==
    /\ pc = "idle"
    /\ pc' = IF big_le_1(s) THEN "returned" ELSE "loop"
    /\ start' = s
    /\ accelerated' = acc
    /\ path_len' = 1
    /\ path_last' = s
    /\ UNCHANGED scene_vars

\* "while path[-1] != 1: path.append(step(path[-1]));
\*  if len(path) > 50000: break"
TrajectoryAppend ==
    /\ pc = "loop"
    /\ big_ne_1(path_last)
    /\ path_last' = big_step_of(accelerated, path_last)
    /\ path_len' = path_len + 1
    /\ pc' = IF path_len' > LenCap THEN "returned" ELSE "loop"
    /\ UNCHANGED <<accelerated, start, scene_vars>>

\* the while condition fails: "return path"
TrajectoryReturn ==
    /\ pc = "loop"
    /\ ~big_ne_1(path_last)
    /\ pc' = "returned"
    /\ UNCHANGED <<accelerated, start, path_len, path_last, scene_vars>>

-----------------------------------------------------------------------------
(* Specifications *)

Init ==
    /\ pc = "idle"
    /\ accelerated = FALSE
    /\ SceneIdle
    /\ LoopIdle

\* the calls of the library, each from the idle state
Next ==
    \/ \E nn \in Starts, acc \in Rules : Trajectory(nn, acc)
    \/ \E t \in GridInputs : BinaryGrid(t)
    \/ \E c \in SpacetimeCalls : SpacetimeBegin(c[1], c[2], c[3])
    \/ SpacetimeRow
    \/ SpacetimeFinish
    \/ \E c \in ParallelCalls : ParallelBegin(c[1], c[2], c[3], c[4])
    \/ ParallelStep
    \/ ParallelFinish

Spec == Init /\ [][Next]_vars

\* trajectory() alone, run as its loop
NextLoop ==
    \/ \E s \in LoopStarts, acc \in Rules : TrajectoryEnter(s, acc)
    \/ TrajectoryAppend
    \/ TrajectoryReturn

SpecLoop == Init /\ [][NextLoop]_vars

-----------------------------------------------------------------------------
(* Claims *)

\* C1 (as claimed): for n >= 1, the path trajectory(n) returns under the
\* standard rule either ends with 1 or has exactly 50,000 elements.
C1_EndsWithOneOrHasCapElements ==
    (pc = "returned" /\ ~accelerated /\ ~big_le_1(start))
        => (~big_ne_1(path_last) \/ path_len = LenCap)

\* C2: for every n, trajectory(n) under the accelerated rule is no longer
\* than trajectory(n) under the standard rule.
C2_AcceleratedNotLonger ==
    (pc = "trajectory" /\ paths[TRUE] # <<>> /\ paths[FALSE] # <<>>)
        => Len(paths[TRUE]) <= Len(paths[FALSE])

\* both rules were run from a start whose accelerated path is the shorter
C2_Witness ==
    /\ pc = "trajectory" /\ n > 1
    /\ paths[TRUE] # <<>> /\ paths[FALSE] # <<>>
    /\ Len(paths[TRUE]) < Len(paths[FALSE])

\* C8: trajectory(27) has 112 elements and ends with 1 under the standard
\* rule, and has fewer elements under the accelerated rule.
C8_TwentySeven ==
    (pc = "trajectory" /\ n = 27)
        => /\ paths[FALSE] # <<>>
                => Len(paths[FALSE]) = 112 /\ Last(paths[FALSE]) = 1
           /\ paths[TRUE] # <<>> => Len(paths[TRUE]) < 112

C8_Witness ==
    /\ pc = "trajectory" /\ n = 27
    /\ paths[TRUE] # <<>> /\ paths[FALSE] # <<>>
    /\ paths[FALSE][1] = 27 /\ paths[FALSE][2] = 82

\* the integer that columns 0..k-1 of a grid row spell, most-significant
\* bit first (ONE = 1, ZERO = 0)
RECURSIVE msb_first_value(_, _)
msb_first_value(row, k) ==
    IF k = 0 THEN 0 ELSE 2 * msb_first_value(row, k - 1) + row[k - 1]

\* a grid and the trajectory it encodes are in the state
GridBuilt == pc \in {"grid", "spacetime", "spacetime_done"}

\* C3: every row i of binary_grid(traj), read over columns
\* 0..bitlen(traj[i])-1 most-significant bit first, spells traj[i].
C3_RoundTrip ==
    GridBuilt =>
        \A i \in 0..(Len(traj) - 1) :
            /\ \A j \in 0..(bit_length(At(traj, i)) - 1) : grid[i][j] \in {0, 1}
            /\ msb_first_value(grid[i], bit_length(At(traj, i))) = At(traj, i)

\* a grid whose rows differ in bit length, one of them not a palindrome
C3_Witness ==
    /\ pc = "grid"
    /\ \E i \in 0..(Len(traj) - 1) :
          /\ At(traj, i) = 6
          /\ bit_length(At(traj, i)) < shape1(grid)
          /\ <<grid[i][0], grid[i][1], grid[i][2]>> = <<1, 1, 0>>

\* C4: the grid has len(traj) rows and as many columns as the longest
\* value has bits; row i holds bits in columns 0..bitlen(traj[i])-1 and
\* EMPTY in every column after them.
C4_Shape ==
    GridBuilt =>
        /\ shape0(grid) = Len(traj)
        /\ \A i \in 0..(Len(traj) - 1) : At(traj, i) < 2 ^ shape1(grid)
        /\ \E i \in 0..(Len(traj) - 1) : At(traj, i) >= 2 ^ (shape1(grid) - 1)
        /\ \A i \in 0..(Len(traj) - 1) :
              /\ DOMAIN grid[i] = 0..(shape1(grid) - 1)
              /\ {j \in DOMAIN grid[i] : grid[i][j] # EMPTY}
                    = 0..(bit_length(At(traj, i)) - 1)
              /\ \A j \in bit_length(At(traj, i))..(shape1(grid) - 1) :
                    grid[i][j] = EMPTY

\* a grid with a row shorter than the grid is wide, after a longer one
C4_Witness ==
    /\ pc = "grid"
    /\ Len(traj) >= 2
    /\ bit_length(At(traj, 0)) < shape1(grid)
    /\ grid[0][shape1(grid) - 1] = EMPTY

\* C5: the frames of spacetime_gif for a grid of H rows are H + 30.
C5_FrameCount ==
    pc = "spacetime_done" => Len(frames) = shape0(grid) + HoldCount

\* generate_all's animation, of the 42 rows of trajectory(27, accelerated)
C5_Witness ==
    /\ pc = "spacetime_done" /\ n = 27
    /\ shape0(grid) = 42 /\ Len(frames) = 72

\* frame f shows row `row` of the grid g, placed at canvas column co, in
\* the colours one / zero: its bits are filled so, its EMPTY cells are not
RowShown(f, g, row, co, one, zero) ==
    \A j \in 0..(shape1(g) - 1) :
        IF g[row][j] = EMPTY THEN <<row, co + j>> \notin DOMAIN f
        ELSE /\ <<row, co + j>> \in DOMAIN f
             /\ f[<<row, co + j>>].fill = IF g[row][j] = 1 THEN one ELSE zero

\* frame f has a fill of one of the colours `colours` in row `row`, in the
\* columns co..co+width-1
RowHasColour(f, row, co, width, colours) ==
    \E j \in 0..(width - 1) :
        /\ <<row, co + j>> \in DOMAIN f
        /\ f[<<row, co + j>>].fill \in colours

\* frame f has no fill in row `row`
RowUnpainted(f, row) == \A c \in DOMAIN f : c[1] # row

\* C6: in spacetime_gif's frames for a grid of H rows, frame r < H shows
\* rows 0..r-1 in the base colours, row r and only row r in the highlight
\* colours and no later row; it keeps every fill of frame r-1 in its place
\* and adds the fills of exactly one row; every frame from index H on shows
\* all H rows in the base colours and none highlighted.
C6_Frames ==
    pc = "spacetime_done" =>
        LET H == shape0(grid)
            W == shape1(grid)
        IN  /\ \A k \in 0..(H - 1) :
                  LET f == At(frames, k)
                  IN  /\ \A i \in 0..(k - 1) :
                            /\ RowShown(f, grid, i, 0, c1, c0)
                            /\ ~RowHasColour(f, i, 0, W, {c1_hi, c0_hi})
                      /\ RowShown(f, grid, k, 0, c1_hi, c0_hi)
                      /\ RowHasColour(f, k, 0, W, {c1_hi, c0_hi})
                      /\ ~RowHasColour(f, k, 0, W, {c1, c0})
                      /\ \A i \in (k + 1)..(H - 1) : RowUnpainted(f, i)
                      /\ DOMAIN f \subseteq (0..(H - 1)) \X (0..(W - 1))
                      /\ k > 0 =>
                            LET prev == At(frames, k - 1)
                            IN  /\ DOMAIN prev \subseteq DOMAIN f
                                /\ \A c \in DOMAIN prev : f[c].box = prev[c].box
                                /\ \A c \in DOMAIN prev :
                                      c[1] # k - 1 => f[c].fill = prev[c].fill
                                /\ {c[1] : c \in DOMAIN f \ DOMAIN prev} = {k}
            /\ \A k \in H..(Len(frames) - 1) :
                  \A i \in 0..(H - 1) :
                      /\ RowShown(At(frames, k), grid, i, 0, c1, c0)
                      /\ ~RowHasColour(At(frames, k), i, 0, W, {c1_hi, c0_hi})

\* an animation of at least three rows of different widths is complete
C6_Witness ==
    /\ pc = "spacetime_done"
    /\ shape0(grid) >= 3
    /\ \E i \in 0..(shape0(grid) - 1) : grid[i][shape1(grid) - 1] = EMPTY
    /\ Len(frames) > shape0(grid)

\* frame f of parallel_gif's step s is right for trajectory idx: if the
\* trajectory is higher than s, its row s is highlighted and its rows
\* before s are in the base colours; if it is lower than s, all its rows
\* are in the base colours and none is highlighted
ParFrameShows(f, s, idx) ==
    LET g == grids[idx]
        co == col_offsets[idx]
        hi == {par_c1(idx, TRUE), par_c0(idx, TRUE)}
        base == {par_c1(idx, FALSE), par_c0(idx, FALSE)}
    IN  /\ shape0(g) > s =>
              /\ RowShown(f, g, s, co, par_c1(idx, TRUE), par_c0(idx, TRUE))
              /\ RowHasColour(f, s, co, shape1(g), hi)
              /\ ~RowHasColour(f, s, co, shape1(g), base)
              /\ \A i \in 0..(s - 1) :
                    /\ RowShown(f, g, i, co, par_c1(idx, FALSE), par_c0(idx, FALSE))
                    /\ ~RowHasColour(f, i, co, shape1(g), hi)
        /\ shape0(g) < s =>
              \A i \in 0..(shape0(g) - 1) :
                  /\ RowShown(f, g, i, co, par_c1(idx, FALSE), par_c0(idx, FALSE))
                  /\ ~RowHasColour(f, i, co, shape1(g), hi)

\* C7: parallel_gif's loop makes one frame per step and max(h_k) steps; at
\* step s a trajectory higher than s has row s highlighted and its earlier
\* rows in the base colours, and a trajectory lower than s is drawn nothing
\* in that step and keeps all its rows in the base colours.
C7_ParallelSteps ==
    /\ pc = "parallel" =>
          /\ Len(frames) = r
          /\ r <= max_rows
          /\ r > 0 =>
                \A idx \in DOMAIN grids :
                    /\ ParFrameShows(At(frames, r - 1), r - 1, idx)
                    /\ shape0(grids[idx]) < r - 1 =>
                          \A c \in painted : c[1] # idx
    /\ pc = "parallel_done" =>
          LET steps == Len(frames) - HoldCount
          IN  /\ \A idx \in DOMAIN grids : shape0(grids[idx]) <= steps
              /\ \E idx \in DOMAIN grids : shape0(grids[idx]) = steps
              /\ \A s \in 0..(steps - 1) : \A idx \in DOMAIN grids :
                    ParFrameShows(At(frames, s), s, idx)

\* a step past the end of one trajectory and inside another
C7_Witness ==
    /\ pc = "parallel" /\ r > 0
    /\ \E idx \in DOMAIN grids : shape0(grids[idx]) < r - 1
    /\ \E idx \in DOMAIN grids : shape0(grids[idx]) > r - 1
    /\ painted # {}

\* the sum of the widths of the first k grids
RECURSIVE sum_widths(_, _)
sum_widths(gs, k) ==
    IF k = 0 THEN 0 ELSE sum_widths(gs, k - 1) + shape1(gs[k - 1])

\* C9: parallel_gif's canvas is at least as wide as the grids' widths and
\* the gap_cols columns between each two neighbours, times the cell size.
C9_CanvasWidth ==
    pc \in {"parallel", "parallel_done"} =>
        w >= (sum_widths(grids, Len(numbers))
                 + gap_cols * (Len(numbers) - 1)) * cell

\* generate_all's call: [7, 27, 97], two gap columns, cells of 12 pixels
C9_Witness ==
    /\ pc = "parallel"
    /\ numbers = <<7, 27, 97>> /\ gap_cols = 2 /\ cell = 12
    /\ shape0(grids) = 3

\* two pixel boxes share no pixel
Disjoint(a, b) == a[3] < b[1] \/ b[3] < a[1] \/ a[4] < b[2] \/ b[4] < a[2]

\* C10: every rectangle drawn by spacetime_gif and parallel_gif is not
\* degenerate and inside the canvas, and the rectangles of two cells never
\* overlap.
C10_Rectangles ==
    \A c \in DOMAIN canvas :
        LET b == canvas[c].box
        IN  /\ b[1] <= b[3] /\ b[2] <= b[4]
            /\ 0 <= b[1] /\ b[3] < w
            /\ 0 <= b[2] /\ b[4] < h
            /\ \A d \in DOMAIN canvas : d # c => Disjoint(b, canvas[d].box)

\* two trajectories side by side with no gap column and no inset, drawn
C10_Witness ==
    /\ pc = "parallel_done"
    /\ Len(numbers) >= 2 /\ gap_cols = 0 /\ gap = 0
    /\ \E c \in DOMAIN canvas : <<c[1], c[2] + 1>> \in DOMAIN canvas
    /\ \E c \in DOMAIN canvas : c[2] >= col_offsets[1]

====
